---- MODULE Spec2Model ----
(***************************************************************************)
(* Network Witness (nw.py): a polling loop that opens a telnet session to  *)
(* every host of a registry file, negotiates a prompt, fetches one command *)
(* output and compares it line by line with a stored baseline.             *)
(*                                                                         *)
(* Text is modelled as a sequence of tokens (a token stands for a run of   *)
(* characters that the program never looks inside), so that split,         *)
(* splitlines, replace and the substring test are computed, not assumed.   *)
(*                                                                         *)
(* The remote side is the environment: every expect either finds its       *)
(* pattern or ends by timeout (by EOF when telnet never connected).        *)
(* KeyboardInterrupt, an interrupt from outside, is not modelled.          *)
(***************************************************************************)
EXTENDS Integers, Sequences, FiniteSets, TLC

\* ---------------------------------------------------------------- bounds
\* longest registry file (lines)
MaxLines == 2
\* polling cycles after which the model stops sleeping
MaxCycles == 2
\* longest transcript of the comparison specification (lines)
MaxLen == 3
\* longest address of the encoding specification (tokens)
MaxAddr == 4

\* ------------------------------------------------------------ text helpers
Min(a, b) == IF a < b THEN a ELSE b

\* the positions of token t in s
Positions(s, t) == {i \in 1..Len(s) : s[i] = t}

FirstPos(s, t) == CHOOSE i \in Positions(s, t) : \A j \in Positions(s, t) : i <= j

\* str.replace(old, new): every non-overlapping occurrence of the non-empty
\* token sequence old, from the left, becomes new
RECURSIVE Replace(_, _, _)
Replace(s, old, new) ==
    IF Len(s) < Len(old) THEN s
    ELSE IF SubSeq(s, 1, Len(old)) = old
         THEN new \o Replace(SubSeq(s, Len(old) + 1, Len(s)), old, new)
         ELSE <<Head(s)>> \o Replace(Tail(s), old, new)

\* str.split(sep): always at least one field, empty fields kept
RECURSIVE Split(_, _)
Split(s, sep) ==
    IF Positions(s, sep) = {} THEN <<s>>
    ELSE LET k == FirstPos(s, sep)
         IN  <<SubSeq(s, 1, k - 1)>> \o Split(SubSeq(s, k + 1, Len(s)), sep)

\* str.splitlines(): no field for the empty text or after a final line break
RECURSIVE SplitLines(_)
SplitLines(s) ==
    IF s = <<>> THEN <<>>
    ELSE IF Positions(s, "\n") = {} THEN <<s>>
    ELSE LET k == FirstPos(s, "\n")
         IN  <<SubSeq(s, 1, k - 1)>> \o SplitLines(SubSeq(s, k + 1, Len(s)))

\* pat in s (substring test)
Contains(pat, s) ==
    \E i \in 0..(Len(s) - Len(pat)) : SubSeq(s, i + 1, i + Len(pat)) = pat

\* all sequences over S of length at most n
SeqUpTo(S, n) == UNION {[1..k -> S] : k \in 0..n}

\* ------------------------------------------------------------ log entries
Entry(level, msg) == [level |-> level, msg |-> msg]

\* ------------------------------------------------------- host encodings
\* "10.0.0.1:200 becomes 10.0.0.1 200", the endpoint given to telnet
DialString(host) == Replace(host, <<":">>, <<" ">>)

\* "10.0.0.1:200 becomes 10.0.0.1__200"
FileHost(host) == Replace(host, <<":">>, <<"_", "_">>)

\* the dial string turned back for the "Could not connect to" report
ReportedHost(dialString) == Replace(dialString, <<" ">>, <<":">>)

\* the host as printed in an alert
ShownHost(fileHost) == Replace(fileHost, <<"_", "_">>, <<":">>)

BaselineName(host) == <<"switch_known_good_">> \o FileHost(host) \o <<".txt">>

\* --------------------------------------------------- the comparison engine
SuppressPattern == <<"FastEthernet0/2", " ">>

\* "FastEthernet0/2 " in currentCfgLine
Suppressed(line) == Contains(SuppressPattern, line)

\* a variant of ChangeEvent with the two lines the wrong way round
ChangeEvent_Swapped(i, goodCfgLine, currentCfgLine) ==
    [lineIndex |-> i - 1, expectedLine |-> currentCfgLine, actualLine |-> goodCfgLine]

\* the alert of one mismatch: printed "Known Good" and "Current" lines; lineIndex
\* is the 0-based position of the pair in zip at which the alert is raised
ChangeEvent(i, goodCfgLine, currentCfgLine) ==
    [lineIndex |-> i - 1, expectedLine |-> goodCfgLine, actualLine |-> currentCfgLine]

\* a variant of ComparePair that looks for the pattern in the baseline line
ComparePair_TestsBaseline(i, currentCfgLine, goodCfgLine) ==
    IF currentCfgLine # goodCfgLine
    THEN IF ~Suppressed(goodCfgLine)
         THEN [events |-> <<ChangeEvent(i, goodCfgLine, currentCfgLine)>>,
               log |-> <<Entry("warn", "CONFIG FILE CHANGE")>>]
         ELSE [events |-> <<>>, log |-> <<Entry("debug", "Ignoring due to exception")>>]
    ELSE [events |-> <<>>, log |-> <<>>]

\* one pair of zip(currentSwitchConfig, knownGoodConfig), at 1-based position i
ComparePair(i, currentCfgLine, goodCfgLine) ==
    IF currentCfgLine # goodCfgLine
    THEN IF ~Suppressed(currentCfgLine)
         THEN [events |-> <<ChangeEvent(i, goodCfgLine, currentCfgLine)>>,
               log |-> <<Entry("warn", "CONFIG FILE CHANGE")>>]
         ELSE [events |-> <<>>, log |-> <<Entry("debug", "Ignoring due to exception")>>]
    ELSE [events |-> <<>>, log |-> <<>>]

\* how many pairs zip yields
ZipLen(cur, gd) == Min(Len(cur), Len(gd))

RECURSIVE CompareFrom(_, _, _)
\* a variant of CompareFrom that goes on to the end of the longer list and takes
\* a missing line for an empty one, as zip_longest would
CompareFrom_Padded(i, cur, gd) ==
    IF i > Len(cur) /\ i > Len(gd) THEN [events |-> <<>>, log |-> <<>>]
    ELSE LET one == ComparePair(i, IF i <= Len(cur) THEN cur[i] ELSE <<>>,
                                   IF i <= Len(gd) THEN gd[i] ELSE <<>>)
             rest == CompareFrom(i + 1, cur, gd)
         IN  [events |-> one.events \o rest.events, log |-> one.log \o rest.log]

CompareFrom(i, cur, gd) ==
    IF i > ZipLen(cur, gd) THEN [events |-> <<>>, log |-> <<>>]
    ELSE LET one == ComparePair(i, cur[i], gd[i])
             rest == CompareFrom(i + 1, cur, gd)
         IN  [events |-> one.events \o rest.events, log |-> one.log \o rest.log]

\* a variant of CompareConfigs that compares with "is not": two separately built
\* objects are never the same object, so every pair counts as a mismatch
CompareConfigs_ByIdentity(cur, gd) ==
    LET all == [k \in 1..ZipLen(cur, gd) |-> ChangeEvent(k, gd[k], cur[k])]
        IsReported(e) == ~Suppressed(e.actualLine)
    IN  [events |-> SelectSeq(all, IsReported),
         log |-> <<Entry("debug", "Current config does not match known")>>]

\* a variant of CompareConfigs that stops at the first reported difference, as a
\* comparison that takes the rest for a shifted copy would
CompareConfigs_FirstDifference(cur, gd) ==
    IF cur # gd
    THEN LET r == CompareFrom(1, cur, gd)
         IN  [events |-> IF r.events = <<>> THEN <<>> ELSE <<Head(r.events)>>,
              log |-> <<Entry("debug", "Current config does not match known")>> \o r.log]
    ELSE [events |-> <<>>, log |-> <<Entry("debug", "Current config matches known")>>]

\* lines 205-223 of checkSwitchConfig on two line lists
CompareConfigs(cur, gd) ==
    IF cur # gd
    THEN LET r == CompareFrom(1, cur, gd)
         IN  [events |-> r.events,
              log |-> <<Entry("debug", "Current config does not match known")>> \o r.log]
    ELSE [events |-> <<>>, log |-> <<Entry("debug", "Current config matches known")>>]

\* ------------------------------------------------------------- the inputs
\* HostKeys as written in the registry: address, optionally ':' and a port
H1 == <<"10.0.0.1", ":", "23">>
H2 == <<"10.0.0.2">>

\* registry lines: HOST:PORT,USER,PASS,FRIENDLYNAME
LineH1 == H1 \o <<",", "ADMIN", ",", "PASSWORD123", ",", "SWITCH">>
LineH2 == H2 \o <<",", ",", ",", "DSWITCH">>
\* a line that lacks the last field
LineShort == H2 \o <<",", ",">>

RegistryLines == {LineH1, LineH2, LineShort}
RegistryFiles == SeqUpTo(RegistryLines, MaxLines)

\* lines of "show ip interface brief | include FastEthernet"
Fa1Up == <<"FastEthernet0/1", " ", "up">>
Fa1Down == <<"FastEthernet0/1", " ", "down">>
Fa2Up == <<"FastEthernet0/2", " ", "up">>
Fa2Down == <<"FastEthernet0/2", " ", "down">>
Fa20Up == <<"FastEthernet0/2", "0", " ", "up">>
NL == <<"\n">>

\* what telconn.before may hold after the retrieval command
OutGood == Fa1Up \o NL \o Fa2Up \o NL
OutDrift == Fa1Down \o NL \o Fa2Up \o NL
OutIgnored == Fa1Up \o NL \o Fa2Down \o NL
OutShort == Fa1Up \o NL
RawOutputs == {OutGood, OutDrift, OutIgnored, OutShort}


\* ------------------------------------------------------------------ state
VARIABLES
    args,       \* parsed command line: [swbaseline, help]
    pc,         \* where the process is
    phase,      \* "args" (before either loop), "baseline" (--swbaseline loop)
                \* or "monitor" (polling loop)
    cycle,      \* polling cycles completed
    exitCode,   \* exit status once pc = "exited"
    hostsFile,  \* lines of the registry file that is open
    idx,        \* 1-based position of the registry line being processed
    store,      \* baseline files: file name -> raw text
    connOK,     \* the telnet child reached the remote
    telconn,    \* the session handle: "none", "open", "closed"
    orphaned,   \* a session that connectTelnet let go without close() is still
                \* open
    sent,       \* what was sent on the current session, in order
    seen,       \* the expect calls of the current session and how they ended
    log,        \* entries logged while handling the registry line in hand
    events,     \* alerts raised while handling the registry line in hand
    attempts,   \* sessions spawned while handling the registry line in hand
    checked,    \* registry positions given to checkSwitchConfig this cycle
    negotiated, \* what connectTelnet did for this line: "none", "negotiating",
                \* "Ready" (handle returned), "Failed" (False returned)
    result,     \* how the call for this line ended: "pending", "false", "done",
                \* "raised" (exception left the call), "exit" (sys.exit inside it)
    current,    \* comparison specification: fresh transcript
    good,       \* comparison specification: baseline transcript
    diffOut,    \* comparison specification: result of the comparison
    hostKey,    \* encoding specification: the host field of a registry line
    encoded     \* encoding specification: what the program makes of hostKey

mainVars == <<args, pc, phase, cycle, exitCode, hostsFile, idx, store, connOK,
              telconn, orphaned, sent, seen, log, events, attempts, checked,
              negotiated, result>>
diffVars == <<current, good, diffOut>>
encVars == <<hostKey, encoded>>
vars == <<mainVars, diffVars, encVars>>

\* ------------------------------------------------- the registry line in hand
Line == hostsFile[idx]
Fields == Split(Line, ",")
host == Fields[1]
username == Fields[2]
password == Fields[3]
friendlyName == Fields[4]

\* host, username, password, friendlyName = host.split(',')
WellFormed(line) == Len(Split(line, ",")) = 4

\* ------------------------------------------------------------ what is sent
CR == <<"\r">>
PagerOff == <<"terminal length 0", "\r">>
Retrieval == <<"show ip interface brief | include FastEthernet", "\r">>

\* the patterns given to expect
PromptPat == "> or #"
ReturnPat == "RETURN"
UserPat == "Username: "
PassPat == "Password: "

\* how an expect call ends: the remote may emit the pattern or stay silent until
\* the timeout; when the telnet child never connected every expect ends in EOF
Outcome(r) == IF connOK THEN r ELSE "eof"
Expect(pat, r) == [pat |-> pat, res |-> Outcome(r)]

\* ------------------------------------------------------------------- Init
Hosts == {H1, H2}
InitStores ==
    UNION {[{BaselineName(h) : h \in S} -> {OutGood}] : S \in SUBSET Hosts}

NoDiff == [done |-> FALSE, events |-> <<>>, log |-> <<>>]
NoEncoding == [done |-> FALSE]

Init ==
    /\ args \in [swbaseline : BOOLEAN, help : BOOLEAN]
    /\ pc = "start"
    /\ phase = "args"
    /\ cycle = 0
    /\ exitCode = 0
    /\ hostsFile = <<>>
    /\ idx = 1
    /\ store \in InitStores
    /\ connOK = FALSE
    /\ telconn = "none"
    /\ orphaned = FALSE
    /\ sent = <<>>
    /\ seen = <<>>
    /\ log = <<>>
    /\ events = <<>>
    /\ attempts = 0
    /\ checked = {}
    /\ negotiated = "none"
    /\ result = "pending"
    /\ current = <<>>
    /\ good = <<>>
    /\ diffOut = NoDiff
    /\ hostKey = <<>>
    /\ encoded = NoEncoding

\* ------------------------------------------------------------------- main
sessionVars == <<connOK, telconn, orphaned, sent, seen, attempts, negotiated>>
fileVars == <<hostsFile, idx, checked>>

\* sys.exit(code)
Exit(code) == pc' = "exited" /\ exitCode' = code

\* args.help: the usage text, then sys.exit(1)
Help ==
    /\ pc = "start"
    /\ args.help
    /\ Exit(1)
    /\ UNCHANGED <<args, phase, cycle, store, log, events, result, fileVars,
                   sessionVars, diffVars, encVars>>

\* args.swbaseline: open switchHosts_baseline.txt
OpenBaselineRegistry ==
    /\ pc = "start"
    /\ ~args.help
    /\ args.swbaseline
    /\ \E present \in BOOLEAN, f \in RegistryFiles :
        IF present
        THEN /\ hostsFile' = f
             /\ idx' = 1
             /\ phase' = "baseline"
             /\ pc' = "line"
             /\ UNCHANGED <<exitCode, log>>
        ELSE \* except IOError
             /\ log' = log \o <<Entry("error", "No switchHosts_baseline.txt file found")>>
             /\ Exit(1)
             /\ UNCHANGED <<hostsFile, idx, phase>>
    /\ UNCHANGED <<args, cycle, store, events, checked, result, sessionVars, diffVars, encVars>>

\* neither --help nor --swbaseline: straight to the polling loop
EnterMonitoring ==
    /\ pc = "start"
    /\ ~args.help
    /\ ~args.swbaseline
    /\ pc' = "loop"
    /\ phase' = "monitor"
    /\ UNCHANGED <<args, cycle, exitCode, store, log, events, result,
                   fileVars, sessionVars, diffVars, encVars>>

\* while True: open switchHosts.txt
OpenRegistry ==
    /\ pc = "loop"
    /\ \E present \in BOOLEAN, f \in RegistryFiles :
        IF present
        THEN /\ hostsFile' = f
             /\ idx' = 1
             /\ checked' = {}
             /\ pc' = "line"
             /\ UNCHANGED <<exitCode, log>>
        ELSE \* except IOError
             /\ log' = log \o <<Entry("error", "No []Hosts.txt/baseline file found")>>
             /\ Exit(1)
             /\ UNCHANGED <<hostsFile, idx, checked>>
    /\ UNCHANGED <<args, phase, cycle, store, events, result, sessionVars, diffVars, encVars>>

\* for host in hostsFile, on a line with four fields: the call of
\* createSwitchBaseline or checkSwitchConfig begins
StartHost ==
    /\ pc = "line"
    /\ idx <= Len(hostsFile)
    /\ WellFormed(Line)
    /\ pc' = "spawn"
    /\ checked' = IF phase = "monitor" THEN checked \cup {idx} ELSE checked
    /\ log' = <<>>
    /\ events' = <<>>
    /\ attempts' = 0
    /\ negotiated' = "none"
    /\ result' = "pending"
    /\ sent' = <<>>
    /\ seen' = <<>>
    /\ connOK' = FALSE
    /\ UNCHANGED <<args, phase, cycle, exitCode, hostsFile, idx, store, telconn, orphaned,
                   diffVars, encVars>>

\* a variant of SkipMalformedLine with the try around the for loop, as in the
\* baseline block: the malformed line ends the switch loop of the cycle
SkipMalformedLine_Break ==
    /\ pc = "line"
    /\ phase = "monitor"
    /\ idx <= Len(hostsFile)
    /\ ~WellFormed(Line)
    /\ log' = <<Entry("error", "A line in your switchHosts.txt is incorrectly formatted")>>
    /\ events' = <<>>
    /\ attempts' = 0
    /\ negotiated' = "none"
    /\ result' = "skipped"
    /\ sent' = <<>>
    /\ seen' = <<>>
    /\ connOK' = FALSE
    /\ idx' = Len(hostsFile) + 1
    /\ UNCHANGED <<args, pc, phase, cycle, exitCode, hostsFile, store, checked,
                   telconn, orphaned, diffVars, encVars>>

\* monitoring, except ValueError: log, pass, next line
SkipMalformedLine ==
    /\ pc = "line"
    /\ phase = "monitor"
    /\ idx <= Len(hostsFile)
    /\ ~WellFormed(Line)
    /\ log' = <<Entry("error", "A line in your switchHosts.txt is incorrectly formatted")>>
    /\ events' = <<>>
    /\ attempts' = 0
    /\ negotiated' = "none"
    /\ result' = "skipped"
    /\ sent' = <<>>
    /\ seen' = <<>>
    /\ connOK' = FALSE
    /\ idx' = idx + 1
    /\ UNCHANGED <<args, pc, phase, cycle, exitCode, hostsFile, store, checked,
                   telconn, orphaned, diffVars, encVars>>

\* baseline capture, except ValueError: the for loop is left and the error is
\* logged; the handler does not exit, so control reaches the polling loop below
MalformedBaselineLine ==
    /\ pc = "line"
    /\ phase = "baseline"
    /\ idx <= Len(hostsFile)
    /\ ~WellFormed(Line)
    /\ log' = <<Entry("error", "A line in your switchHosts_baseline.txt is incorrectly formatted")>>
    /\ events' = <<>>
    /\ attempts' = 0
    /\ negotiated' = "none"
    /\ result' = "skipped"
    /\ sent' = <<>>
    /\ seen' = <<>>
    /\ connOK' = FALSE
    /\ pc' = "loop"
    /\ phase' = "monitor"
    /\ UNCHANGED <<args, cycle, exitCode, hostsFile, idx, store, checked, telconn, orphaned,
                   diffVars, encVars>>

\* the baseline loop ran out of lines: "Baseline Created", sys.exit(1); no
\* registry line is in hand any more, so the per-line records are emptied
BaselinesCreated ==
    /\ pc = "line"
    /\ phase = "baseline"
    /\ idx > Len(hostsFile)
    /\ log' = <<Entry("debug", "Baselines created")>>
    /\ events' = <<>>
    /\ attempts' = 0
    /\ negotiated' = "none"
    /\ result' = "pending"
    /\ sent' = <<>>
    /\ seen' = <<>>
    /\ connOK' = FALSE
    /\ Exit(1)
    /\ UNCHANGED <<args, phase, cycle, store, fileVars, telconn, orphaned, diffVars, encVars>>

\* the switch loop of a polling cycle ran out of lines: on to the pings; no
\* registry line is in hand any more, so the per-line records are emptied
SwitchesDone ==
    /\ pc = "line"
    /\ phase = "monitor"
    /\ idx > Len(hostsFile)
    /\ pc' = "pings"
    /\ log' = <<>>
    /\ events' = <<>>
    /\ attempts' = 0
    /\ negotiated' = "none"
    /\ result' = "pending"
    /\ sent' = <<>>
    /\ seen' = <<>>
    /\ connOK' = FALSE
    /\ UNCHANGED <<args, phase, cycle, exitCode, store, fileVars, telconn, orphaned, diffVars, encVars>>

\* the ping loop over pingHosts.txt; a missing file is an IOError
Pings ==
    /\ pc = "pings"
    /\ \E present \in BOOLEAN :
        IF present
        THEN pc' = "sleep" /\ UNCHANGED <<exitCode, log>>
        ELSE /\ log' = log \o <<Entry("error", "No []Hosts.txt/baseline file found")>>
             /\ Exit(1)
    /\ UNCHANGED <<args, phase, cycle, store, events, result, fileVars,
                   sessionVars, diffVars, encVars>>

\* time.sleep(15), then the next cycle
Sleep ==
    /\ pc = "sleep"
    /\ cycle < MaxCycles
    /\ cycle' = cycle + 1
    /\ pc' = "loop"
    /\ UNCHANGED <<args, phase, exitCode, store, log, events, result, fileVars,
                   sessionVars, diffVars, encVars>>

\* ---------------------------------------------- the callers of connectTelnet
\* what the caller logs when getSwitchConfig hands it False
CallerOnFalse ==
    IF phase = "baseline"
    THEN <<Entry("info", "Creating baseline for host"),
           Entry("error", "Creating baseline failed")>>
    ELSE <<Entry("debug", "Current switch config returned as false")>>

\* fBaseline = open(name, 'w'); write; close
WriteFile(files, name, text) ==
    [n \in DOMAIN files \cup {name} |-> IF n = name THEN text ELSE files[n]]

\* what may be left of the sessions that were let go once connectTelnet has
\* returned False: no close() is called on these paths, the telnet child of a
\* connected session lives until the interpreter finalizes the spawn object,
\* which it may do at once, later or not before the next spawn
LeftOpen == IF connOK \/ orphaned THEN BOOLEAN ELSE {FALSE}

\* a variant of ReturnFalse for a createSwitchBaseline that opens the baseline
\* file for writing before it looks at what getSwitchConfig returned
ReturnFalse_Truncates(lg, sn) ==
    /\ log' = lg \o CallerOnFalse
    /\ seen' = sn
    /\ negotiated' = "Failed"
    /\ result' = "false"
    /\ idx' = idx + 1
    /\ pc' = "line"
    /\ orphaned' \in LeftOpen
    /\ store' = IF phase = "baseline" THEN WriteFile(store, BaselineName(host), <<>>)
                ELSE store
    /\ UNCHANGED <<args, phase, cycle, exitCode, hostsFile, events, checked,
                   connOK, telconn, sent, attempts, diffVars, encVars>>

\* connectTelnet returns False: getSwitchConfig returns False, its caller logs and
\* returns False, and the for loop of main takes the next line
ReturnFalse(lg, sn) ==
    /\ log' = lg \o CallerOnFalse
    /\ seen' = sn
    /\ negotiated' = "Failed"
    /\ result' = "false"
    /\ idx' = idx + 1
    /\ pc' = "line"
    /\ orphaned' \in LeftOpen
    /\ UNCHANGED <<args, phase, cycle, exitCode, hostsFile, store, events, checked,
                   connOK, telconn, sent, attempts, diffVars, encVars>>

\* a variant of ConnectError that spawns telnet again for the same host
ConnectError_Retry(lg, sn) ==
    /\ log' = lg \o <<Entry("error", "Could not connect to")>>
    /\ seen' = sn
    /\ pc' = "spawn"
    /\ UNCHANGED <<args, phase, cycle, exitCode, hostsFile, idx, store, events,
                   checked, connOK, telconn, orphaned, sent, attempts, negotiated, result,
                   diffVars, encVars>>

\* the outer "except Exception" of connectTelnet
ConnectError(lg, sn) ==
    ReturnFalse(lg \o <<Entry("error", "Could not connect to")>>, sn)

\* an expect matched inside connectTelnet: the session goes on to wait at `next'
Advance(lg, sn, snt, next) ==
    /\ log' = lg
    /\ seen' = sn
    /\ sent' = snt
    /\ pc' = next
    /\ UNCHANGED <<args, phase, cycle, exitCode, hostsFile, idx, store, events,
                   checked, connOK, telconn, orphaned, attempts, negotiated, result, diffVars, encVars>>

\* a variant of PromptGiveUp that sends the carriage return once more and waits
\* again instead of giving up
PromptGiveUp_Retry(lg, sn) ==
    Advance(lg, sn, Append(sent, CR), "expPrompt2")

\* the inner "except" after the carriage return
PromptGiveUp(lg, sn) ==
    ReturnFalse(lg \o <<Entry("error", "Unable to gain a prompt on"),
                        Entry("error", "The remote prompt may not be using > or #")>>, sn)

\* ------------------------------------------------------------ connectTelnet
\* the wait that follows the spawn, or the username wait
FirstWait == IF username # <<>> THEN "expUser"
             ELSE IF password # <<>> THEN "expPass" ELSE "expPrompt1"
AfterUser == IF password # <<>> THEN "expPass" ELSE "expPrompt1"

\* pexpect.spawn('telnet ' + host), time.sleep(1)
Spawn ==
    /\ pc = "spawn"
    /\ \E ok \in BOOLEAN : connOK' = ok
    /\ telconn' = "open"
    /\ sent' = <<>>
    /\ seen' = <<>>
    /\ attempts' = attempts + 1
    /\ negotiated' = "negotiating"
    /\ pc' = FirstWait
    /\ UNCHANGED <<args, phase, cycle, exitCode, hostsFile, idx, store, log, events,
                   checked, result, orphaned, diffVars, encVars>>

\* if username: expect "Username: ", send the username
ExpUser ==
    /\ pc = "expUser"
    /\ \E r \in {"match", "timeout"} :
        LET sn == Append(seen, Expect(UserPat, r))
            lg == log \o <<Entry("info", "User for")>>
        IN  IF Outcome(r) = "match"
            THEN Advance(lg, sn, Append(sent, username \o CR), AfterUser)
            ELSE ConnectError(lg, sn)

\* a variant of ExpPass that sends the password whether or not the prompt for it
\* was found
ExpPass_SendAnyway ==
    /\ pc = "expPass"
    /\ \E r \in {"match", "timeout"} :
        LET sn == Append(seen, Expect(PassPat, r))
            lg == log \o <<Entry("info", "Password in use for")>>
        IN  Advance(lg, sn, Append(sent, password \o CR), "expPrompt1")

\* if password: expect "Password: ", send the password
ExpPass ==
    /\ pc = "expPass"
    /\ \E r \in {"match", "timeout"} :
        LET sn == Append(seen, Expect(PassPat, r))
            lg == log \o <<Entry("info", "Password in use for")>>
        IN  IF Outcome(r) = "match"
            THEN Advance(lg, sn, Append(sent, password \o CR), "expPrompt1")
            ELSE ConnectError(lg, sn)

\* the first expect(['>', '#']); on any exception the handler looks for RETURN
ExpPrompt1 ==
    /\ pc = "expPrompt1"
    /\ \E r \in {"match", "timeout"} :
        LET sn == Append(seen, Expect(PromptPat, r))
        IN  IF Outcome(r) = "match"
            THEN Advance(log \o <<Entry("debug", "Successfully got a prompt")>>, sn,
                         Append(sent, PagerOff), "expPager")
            ELSE Advance(log \o <<Entry("debug", "Possibly a problem connecting")>>, sn,
                         sent, "expReturn")

\* a variant of ExpReturn that, when RETURN is not found, goes back to waiting
\* for the prompt instead of letting the exception end the negotiation
ExpReturn_WaitAgain ==
    /\ pc = "expReturn"
    /\ \E r \in {"match", "timeout"} :
        LET sn == Append(seen, Expect(ReturnPat, r))
        IN  IF Outcome(r) = "match"
            THEN Advance(log, sn, Append(sent, CR), "expPrompt2")
            ELSE Advance(log, sn, sent, "expPrompt1")

\* expect("RETURN") in the handler: found, a carriage return is sent; not found,
\* the exception leaves the handler and reaches the outer except
ExpReturn ==
    /\ pc = "expReturn"
    /\ \E r \in {"match", "timeout"} :
        LET sn == Append(seen, Expect(ReturnPat, r))
        IN  IF Outcome(r) = "match"
            THEN Advance(log, sn, Append(sent, CR), "expPrompt2")
            ELSE ConnectError(log, sn)

\* the second expect(['>', '#']), after the carriage return
ExpPrompt2 ==
    /\ pc = "expPrompt2"
    /\ \E r \in {"match", "timeout"} :
        LET sn == Append(seen, Expect(PromptPat, r))
        IN  IF Outcome(r) = "match"
            THEN Advance(log, sn, Append(sent, PagerOff), "expPager")
            ELSE PromptGiveUp(log, sn)

\* expect(['>', '#']) after "terminal length 0"; on a match connectTelnet returns
\* the handle and getSwitchConfig sends the retrieval command
ExpPager ==
    /\ pc = "expPager"
    /\ \E r \in {"match", "timeout"} :
        LET sn == Append(seen, Expect(PromptPat, r))
        IN  IF Outcome(r) = "match"
            THEN /\ log' = log \o <<Entry("debug", "Success! Returning telconn")>>
                 /\ seen' = sn
                 /\ sent' = Append(sent, Retrieval)
                 /\ negotiated' = "Ready"
                 /\ pc' = "expExec"
                 /\ UNCHANGED <<args, phase, cycle, exitCode, hostsFile, idx, store,
                                events, checked, connOK, telconn, orphaned, attempts, result,
                                diffVars, encVars>>
            ELSE ConnectError(log, sn)

\* ---------------------------------------------------------- getSwitchConfig
\* createSwitchBaseline once getSwitchConfig has returned the output
StoreBaseline(out) ==
    /\ store' = WriteFile(store, BaselineName(host), out)
    /\ log' = log \o <<Entry("info", "Creating baseline for host"),
                       Entry("info", "Created baseline for host")>>
    /\ result' = "done"
    /\ idx' = idx + 1
    /\ pc' = "line"
    /\ UNCHANGED <<exitCode, phase, events>>

\* the alert of one ChangeEvent as it is printed
Alert(e) ==
    [host |-> ShownHost(FileHost(host)), friendlyName |-> friendlyName,
     lineIndex |-> e.lineIndex, expectedLine |-> e.expectedLine,
     actualLine |-> e.actualLine]

\* a variant of CompareWithBaseline that treats a missing baseline like a failed
\* fetch: it logs, returns False and lets main go on with the next line
CompareWithBaseline_Continue(out) ==
    IF BaselineName(host) \in DOMAIN store
    THEN LET r == CompareConfigs(SplitLines(out), SplitLines(store[BaselineName(host)]))
         IN  /\ events' = events \o [i \in 1..Len(r.events) |-> Alert(r.events[i])]
             /\ log' = log \o r.log
             /\ result' = "done"
             /\ idx' = idx + 1
             /\ pc' = "line"
             /\ UNCHANGED <<exitCode, phase, store>>
    ELSE /\ log' = log \o <<Entry("critical", "Could not open known good config for")>>
         /\ result' = "false"
         /\ idx' = idx + 1
         /\ pc' = "line"
         /\ UNCHANGED <<exitCode, phase, store, events>>

\* a variant of CompareWithBaseline that reads a missing baseline as an empty
\* one and reports every fetched line as changed before it exits
CompareWithBaseline_AllChanged(out) ==
    IF BaselineName(host) \in DOMAIN store
    THEN LET r == CompareConfigs(SplitLines(out), SplitLines(store[BaselineName(host)]))
         IN  /\ events' = events \o [i \in 1..Len(r.events) |-> Alert(r.events[i])]
             /\ log' = log \o r.log
             /\ result' = "done"
             /\ idx' = idx + 1
             /\ pc' = "line"
             /\ UNCHANGED <<exitCode, phase, store>>
    ELSE LET lines == SplitLines(out)
         IN  /\ events' = events \o [i \in 1..Len(lines) |->
                                        Alert(ChangeEvent(i, <<>>, lines[i]))]
             /\ log' = log \o <<Entry("critical", "Could not open known good config for")>>
             /\ result' = "exit"
             /\ Exit(1)
             /\ UNCHANGED <<idx, phase, store>>

\* a variant of CompareWithBaseline that takes the fetched output as the new
\* baseline once it has reported the differences
CompareWithBaseline_Rebaseline(out) ==
    IF BaselineName(host) \in DOMAIN store
    THEN LET r == CompareConfigs(SplitLines(out), SplitLines(store[BaselineName(host)]))
         IN  /\ events' = events \o [i \in 1..Len(r.events) |-> Alert(r.events[i])]
             /\ log' = log \o r.log
             /\ result' = "done"
             /\ idx' = idx + 1
             /\ pc' = "line"
             /\ store' = WriteFile(store, BaselineName(host), out)
             /\ UNCHANGED <<exitCode, phase>>
    ELSE /\ log' = log \o <<Entry("critical", "Could not open known good config for")>>
         /\ result' = "exit"
         /\ Exit(1)
         /\ UNCHANGED <<idx, phase, store, events>>

\* checkSwitchConfig once getSwitchConfig has returned the output
CompareWithBaseline(out) ==
    IF BaselineName(host) \in DOMAIN store
    THEN LET r == CompareConfigs(SplitLines(out), SplitLines(store[BaselineName(host)]))
         IN  /\ events' = events \o [i \in 1..Len(r.events) |-> Alert(r.events[i])]
             /\ log' = log \o r.log
             /\ result' = "done"
             /\ idx' = idx + 1
             /\ pc' = "line"
             /\ UNCHANGED <<exitCode, phase, store>>
    ELSE \* open() failed: logger.critical, sys.exit(1)
         /\ log' = log \o <<Entry("critical", "Could not open known good config for")>>
         /\ result' = "exit"
         /\ Exit(1)
         /\ UNCHANGED <<idx, phase, store, events>>

\* the expect after the retrieval command is outside every try of getSwitchConfig
\* and its callers: the exception travels up to main
ExecRaised ==
    /\ result' = "raised"
    /\ IF phase = "baseline"
       THEN \* except Exception of the baseline block: logger.critical, sys.exit(1)
            /\ log' = log \o <<Entry("critical", "exception")>>
            /\ Exit(1)
       ELSE \* except Exception of the polling loop: logger.critical, break; main
            \* returns and the interpreter ends with status 0
            /\ log' = log \o <<Entry("critical", "exception")>>
            /\ Exit(0)
    /\ UNCHANGED <<idx, phase, store, events, telconn, sent>>

\* telconn.expect(['>', '#']) after the retrieval command, then send "\r", close,
\* return telconn.before to the caller
ExpExec ==
    /\ pc = "expExec"
    /\ \E r \in {"match", "timeout"} :
        /\ seen' = Append(seen, Expect(PromptPat, r))
        /\ IF Outcome(r) = "match"
           THEN /\ sent' = Append(sent, CR)
                /\ telconn' = "closed"
                /\ \E out \in RawOutputs :
                    IF phase = "baseline" THEN StoreBaseline(out)
                    ELSE CompareWithBaseline(out)
           ELSE ExecRaised
    /\ UNCHANGED <<args, cycle, hostsFile, checked, connOK, attempts, negotiated,
                   orphaned, diffVars, encVars>>

Next ==
    \/ Help
    \/ OpenBaselineRegistry
    \/ EnterMonitoring
    \/ OpenRegistry
    \/ StartHost
    \/ SkipMalformedLine
    \/ MalformedBaselineLine
    \/ BaselinesCreated
    \/ SwitchesDone
    \/ Pings
    \/ Sleep
    \/ Spawn
    \/ ExpUser
    \/ ExpPass
    \/ ExpPrompt1
    \/ ExpReturn
    \/ ExpPrompt2
    \/ ExpPager
    \/ ExpExec

Spec == Init /\ [][Next]_vars

\* ------------------------------------------- the comparison on its own
\* The comparison of checkSwitchConfig applied to every pair of line lists of
\* bounded length; the rest of the program stands still.
DiffLines == {Fa1Up, Fa1Down, Fa2Up, Fa20Up}
Transcripts == SeqUpTo(DiffLines, MaxLen)
\* the fresh transcript may be one line longer than the longest baseline
FreshTranscripts == SeqUpTo(DiffLines, MaxLen + 1)

DiffInit ==
    /\ current \in FreshTranscripts
    /\ good \in Transcripts
    /\ diffOut = NoDiff
    /\ hostKey = <<>>
    /\ encoded = NoEncoding
    /\ args = [swbaseline |-> FALSE, help |-> FALSE]
    /\ pc = "diff"
    /\ phase = "monitor"
    /\ cycle = 0
    /\ exitCode = 0
    /\ hostsFile = <<>>
    /\ idx = 1
    /\ store = <<>>
    /\ connOK = FALSE
    /\ telconn = "none"
    /\ orphaned = FALSE
    /\ sent = <<>>
    /\ seen = <<>>
    /\ log = <<>>
    /\ events = <<>>
    /\ attempts = 0
    /\ checked = {}
    /\ negotiated = "none"
    /\ result = "pending"

\* if currentSwitchConfig != knownGoodConfig: ... else: ...
DiffCheck ==
    /\ pc = "diff"
    /\ ~diffOut.done
    /\ LET r == CompareConfigs(current, good)
       IN  diffOut' = [done |-> TRUE, events |-> r.events, log |-> r.log]
    /\ UNCHANGED <<current, good, mainVars, encVars>>

DiffNext == DiffCheck

DiffSpec == DiffInit /\ [][DiffNext]_vars

\* ------------------------------------------- the host encodings on their own
\* The three replace calls applied to the host field of a registry line:
\* address[:port], where the address is any text without ',' and ':'; a token is
\* a run of characters, "_" is one underscore.
AddressTokens == {"sw", "_", "23"}
Addresses == SeqUpTo(AddressTokens, MaxAddr) \ {<<>>}
HostKeys == Addresses \cup {a \o <<":", "23">> : a \in Addresses}

EncInit ==
    /\ hostKey \in HostKeys
    /\ encoded = NoEncoding
    /\ current = <<>>
    /\ good = <<>>
    /\ diffOut = NoDiff
    /\ args = [swbaseline |-> FALSE, help |-> FALSE]
    /\ pc = "encode"
    /\ phase = "monitor"
    /\ cycle = 0
    /\ exitCode = 0
    /\ hostsFile = <<>>
    /\ idx = 1
    /\ store = <<>>
    /\ connOK = FALSE
    /\ telconn = "none"
    /\ orphaned = FALSE
    /\ sent = <<>>
    /\ seen = <<>>
    /\ log = <<>>
    /\ events = <<>>
    /\ attempts = 0
    /\ checked = {}
    /\ negotiated = "none"
    /\ result = "pending"

\* what connectTelnet dials and reports, what checkSwitchConfig opens and prints
EncodeHost ==
    /\ pc = "encode"
    /\ ~encoded.done
    /\ encoded' = [done |-> TRUE,
                   dial |-> DialString(hostKey),
                   reported |-> ReportedHost(DialString(hostKey)),
                   name |-> BaselineName(hostKey),
                   shown |-> ShownHost(FileHost(hostKey))]
    /\ UNCHANGED <<hostKey, mainVars, diffVars>>

EncNext == EncodeHost

EncSpec == EncInit /\ [][EncNext]_vars

\* ===================================================================== claims
\* helpers of the claims
Logged(msg) == \E i \in 1..Len(log) : log[i].msg = msg
Range(q) == {q[i] : i \in 1..Len(q)}
LastSeen == seen[Len(seen)]

\* the registry position the per-line records belong to: once a call has
\* returned, main already points at the next line
Subject == IF pc = "line" THEN idx - 1 ELSE idx
SubjectHost == Split(hostsFile[Subject], ",")[1]

\* the session was Ready, the retrieval command was sent, and the wait for the
\* prompt that follows it ended without a match
ExecutionFailed ==
    /\ negotiated = "Ready"
    /\ pc # "expExec"
    /\ LastSeen.res # "match"

\* C1: an execution failure during monitoring is handled like a negotiation
\* failure: the call yields the failure signal, the process keeps running with
\* the next registry line in hand, and no alert was raised for the host.
C1_ExecFailureIsNonFatal ==
    (phase = "monitor" /\ ExecutionFailed) =>
        /\ result = "false"
        /\ pc = "line"
        /\ events = <<>>

\* C2: with --swbaseline, a missing registry file or a malformed registry line
\* ends the process with a non-zero status and the polling loop is never entered.
C2_BaselineRegistryErrorsAreFatal ==
    (args.swbaseline /\ ~args.help) =>
        /\ phase # "monitor"
        /\ (Logged("No switchHosts_baseline.txt file found")
                => pc = "exited" /\ exitCode # 0)
        /\ (result = "skipped" => pc = "exited" /\ exitCode # 0)

\* what was sent while negotiating, that is before the retrieval command
NegotiationSent ==
    IF Retrieval \in Range(sent)
    THEN SubSeq(sent, 1, (CHOOSE i \in 1..Len(sent) : sent[i] = Retrieval) - 1)
    ELSE sent
CRSends == {i \in 1..Len(NegotiationSent) : NegotiationSent[i] = CR}
NegotiationOver == negotiated \in {"Ready", "Failed"}

\* position k of seen is the first wait for a prompt terminator, it timed out, and
\* the wait after it found the RETURN pattern
ReturnPathAt(k) ==
    /\ k + 1 <= Len(seen)
    /\ seen[k] = [pat |-> PromptPat, res |-> "timeout"]
    /\ \A j \in 1..(k - 1) : seen[j].pat # PromptPat
    /\ seen[k + 1] = [pat |-> ReturnPat, res |-> "match"]

\* the carriage return is the last thing sent and no wait follows position k + 2
NothingAfterRetry(k) ==
    /\ Len(seen) = k + 2
    /\ sent[Len(sent)] = CR
    /\ attempts = 1

\* the pager-disable command is what was sent right after the carriage return
PagerStepFollows ==
    \A i \in CRSends : i + 1 <= Len(sent) /\ sent[i + 1] = PagerOff

\* the part of C3 that does not depend on how the pager-disable wait ends
CarriageReturnRule(k) ==
    /\ ReturnPathAt(k)
    /\ (Len(seen) >= k + 2 /\ seen[k + 2].res # "match")
            => negotiated = "Failed" /\ NothingAfterRetry(k)
    /\ (Len(seen) >= k + 2 /\ seen[k + 2].res = "match") => PagerStepFollows

\* C3 as stated: at most one carriage return per negotiation, sent only after
\* the first prompt wait timed out and RETURN was seen; a prompt after it leads
\* to the pager-disable step and the negotiation ends in Ready; no prompt after
\* it ends the negotiation in Failed with nothing further sent or awaited.
C3_PromptAfterReturnEndsReady ==
    /\ Cardinality(CRSends) <= 1
    /\ CRSends # {} =>
         \E k \in 1..Len(seen) :
            /\ CarriageReturnRule(k)
            /\ (Len(seen) >= k + 2 /\ seen[k + 2].res = "match" /\ NegotiationOver)
                    => negotiated = "Ready"

\* C3 amended: as above, but after a prompt follows the carriage return the
\* negotiation ends in Ready exactly when the wait after the pager-disable
\* command finds a prompt terminator, and in Failed when that wait times out.
C3_SingleCarriageReturn ==
    /\ Cardinality(CRSends) <= 1
    /\ CRSends # {} =>
         \E k \in 1..Len(seen) :
            /\ CarriageReturnRule(k)
            /\ (Len(seen) >= k + 2 /\ seen[k + 2].res = "match" /\ NegotiationOver)
                    => /\ Len(seen) >= k + 3
                       /\ seen[k + 3].pat = PromptPat
                       /\ negotiated = "Ready" <=> seen[k + 3].res = "match"

\* a negotiation that sent the carriage return, got a prompt and reached Ready
C3_Witness ==
    /\ CRSends # {}
    /\ negotiated = "Ready"
    /\ \E k \in 1..Len(seen) : ReturnPathAt(k) /\ seen[k + 2].res = "match"

\* the waits made by connectTelnet (the wait after the retrieval command belongs
\* to getSwitchConfig)
NegotiationWaits ==
    IF negotiated = "Ready" /\ pc # "expExec" THEN Len(seen) - 1 ELSE Len(seen)
PromptMatched ==
    \E i \in 1..Len(seen) : seen[i] = [pat |-> PromptPat, res |-> "match"]
WaitPcs == {"expUser", "expPass", "expPrompt1", "expReturn", "expPrompt2", "expPager"}

C4_Bounded ==
    /\ NegotiationWaits <= 6
    /\ negotiated = "negotiating" =>
            /\ pc \in WaitPcs \cup {"spawn"}
            /\ Len(seen) <= 5
    /\ negotiated = "Ready" => PromptMatched
    /\ (attempts = 1 /\ pc \notin WaitPcs /\ ~PromptMatched) => negotiated = "Failed"

C4_Progress ==
    negotiated = "negotiating" =>
        \/ negotiated' \in {"Ready", "Failed"}
        \/ negotiated' = "negotiating" /\ Len(seen') = Len(seen) + 1

\* C4: a negotiation makes at most six waits, every step of it either ends it
\* in Ready or Failed or uses up one more wait (a wait ends by a match, by its
\* timeout or by EOF), and when no
\* wait ever found a prompt terminator it ends in Failed (False is returned),
\* whatever the login and RETURN waits found.
C4_NegotiationTerminates == []C4_Bounded /\ [][C4_Progress]_vars

\* the remote showed both login prompts and the RETURN pattern but never a
\* prompt terminator: five waits, then Failed
C4_Witness ==
    /\ negotiated = "Failed"
    /\ connOK
    /\ ~PromptMatched
    /\ Len(seen) = 5
    /\ \E i \in 1..Len(seen) : seen[i] = [pat |-> ReturnPat, res |-> "match"]

MissingBaselineMsg == "Could not open known good config for"
ChangeMsg == "CONFIG FILE CHANGE"
MissingBaselineHit == Logged(MissingBaselineMsg)

\* registry positions after the one the records belong to that hold a host
LaterHosts == {i \in (Subject + 1)..Len(hostsFile) : WellFormed(hostsFile[i])}

\* C5 as stated: a missing baseline stops only that host's check; the process
\* keeps running, with the next registry line in hand.
C5_MissingBaselineSkipsHostOnly ==
    MissingBaselineHit => pc = "line" /\ idx = Subject + 1

\* C5 amended: a missing baseline for one host during monitoring ends the whole
\* process with exit status 1: nothing runs afterwards, so the hosts listed after
\* it are not checked in that cycle and no later polling cycle starts.
C5_MissingBaselineEndsProcess ==
    MissingBaselineHit =>
        /\ pc = "exited"
        /\ exitCode = 1
        /\ result = "exit"
        /\ ~ENABLED Next
        /\ checked \cap LaterHosts = {}

\* a baseline is found missing while a host is still listed after that one
C5_Witness ==
    /\ MissingBaselineHit
    /\ phase = "monitor"
    /\ LaterHosts # {}

\* the retrieval command's output was handed to the caller
OutputReceived ==
    /\ negotiated = "Ready"
    /\ pc # "expExec"
    /\ LastSeen.res = "match"

\* C6: in monitoring, when the host's baseline file does not exist no alert is
\* raised for the host, whatever output was fetched; the condition is logged
\* with its own message and never with the change-detected message.
C6_MissingBaselineIsNotDrift ==
    /\ events # <<>> => BaselineName(SubjectHost) \in DOMAIN store
    /\ (phase = "monitor" /\ OutputReceived
            /\ BaselineName(SubjectHost) \notin DOMAIN store)
         => /\ events = <<>>
            /\ MissingBaselineHit
            /\ ~Logged(ChangeMsg)
            /\ result = "exit"
    /\ MissingBaselineHit => ~Logged(ChangeMsg) /\ MissingBaselineMsg # ChangeMsg

\* output was fetched and the session closed for a host that has no baseline
C6_Witness ==
    /\ result = "exit"
    /\ OutputReceived
    /\ BaselineName(SubjectHost) \notin DOMAIN store
    /\ sent[Len(sent)] = CR
    /\ telconn = "closed"

HintMsg == "The remote prompt may not be using > or #"
ConnectMsg == "Could not connect to"

\* the telnet child connected, prompt detection was reached, no wait found a
\* prompt terminator, and connectTelnet returned False
NegotiationFailed ==
    /\ negotiated = "Failed"
    /\ connOK
    /\ ~PromptMatched
    /\ \E i \in 1..Len(seen) : seen[i].pat = PromptPat

\* C7: every negotiation failure is logged with the hint about non-standard
\* prompt characters and not with the report used for a transport failure.
C7_NegotiationFailureCarriesHint ==
    NegotiationFailed => Logged(HintMsg) /\ ~Logged(ConnectMsg)

\* the positions of the open registry that the switch loop has dealt with
Handled == 1..Min(Subject, Len(hostsFile))
InCycle ==
    /\ phase = "monitor"
    /\ \/ pc \in {"line", "spawn", "expExec", "pings", "sleep"} \cup WaitPcs
       \/ pc = "exited" /\ result \in {"exit", "raised"}

C8_Checked ==
    InCycle => checked = {i \in Handled : WellFormed(hostsFile[i])}

C8_Skip ==
    (pc = "line" /\ phase = "monitor" /\ idx <= Len(hostsFile) /\ ~WellFormed(Line))
        => /\ pc' = "line"
           /\ idx' = idx + 1
           /\ \E i \in 1..Len(log') : log'[i].level = "error"
           /\ events' = <<>>
           /\ UNCHANGED <<hostsFile, checked, cycle, exitCode, phase, store>>

\* C8: in monitoring a line with the wrong field count is logged as an error and
\* skipped: the loop stays in the same cycle with the next line in hand, and at
\* every point of a cycle the lines given to checkSwitchConfig are exactly the
\* well-formed lines dealt with so far, so at the end of the switch loop every
\* well-formed line, before or after a malformed one, has been checked.
C8_MalformedLineSkipped == []C8_Checked /\ [][C8_Skip]_vars

\* a cycle reached its sleep with a host checked that is listed after a
\* malformed line
C8_Witness ==
    /\ pc = "sleep"
    /\ \E i, j \in 1..Len(hostsFile) :
        /\ i < j
        /\ ~WellFormed(hostsFile[i])
        /\ WellFormed(hostsFile[j])
        /\ j \in checked

\* the telnet child never reached the remote and connectTelnet returned False
TransportFailed == negotiated = "Failed" /\ ~connOK

C9_Reported ==
    /\ attempts <= 1
    /\ TransportFailed =>
        /\ result = "false"
        /\ Logged(ConnectMsg)
        /\ ~Logged(HintMsg)
        /\ sent = <<>>
        /\ telconn # "closed"
        /\ events = <<>>
        /\ attempts = 1
        /\ pc = "line"
        /\ (idx <= Len(hostsFile) /\ WellFormed(Line)) => ENABLED StartHost

C9_Frame ==
    (negotiated = "negotiating" /\ ~connOK) =>
        /\ store' = store
        /\ negotiated' = "Failed" =>
                /\ idx' = idx + 1
                /\ UNCHANGED <<hostsFile, exitCode, cycle, phase, checked>>

\* C9: when the telnet child does not reach the remote, the call for that host
\* returns False after one spawn: the failure is logged for the host, nothing
\* was sent, no output was read, no alert is raised, no baseline file changes,
\* and main has the next registry line in hand and can start its host.
C9_TransportFailureIsPerHost == []C9_Reported /\ [][C9_Frame]_vars

\* a transport failure on a host that is followed by another host
C9_Witness ==
    /\ TransportFailed
    /\ idx <= Len(hostsFile)
    /\ WellFormed(Line)

\* equal length, different at position k and nowhere else
DiffersOnlyAt(k) ==
    /\ Len(current) = Len(good)
    /\ k \in 1..Len(current)
    /\ current[k] # good[k]
    /\ \A j \in 1..Len(current) : j # k => current[j] = good[j]

OneEventAt(k) ==
    diffOut.events = <<[lineIndex |-> k - 1, expectedLine |-> good[k],
                        actualLine |-> current[k]]>>

\* C10 as stated: equal length and one differing position give exactly one
\* ChangeEvent, with that (0-based) index, the baseline line as expected and the
\* fresh line as actual.
C10_OneDifferenceOneEvent ==
    diffOut.done => \A k \in 1..Len(current) : DiffersOnlyAt(k) => OneEventAt(k)

\* C10 amended: the same, for a fresh line at that position that does not
\* contain "FastEthernet0/2 ".
C10_OneUnsuppressedDifferenceOneEvent ==
    diffOut.done =>
        \A k \in 1..Len(current) :
            (DiffersOnlyAt(k) /\ ~Contains(<<"FastEthernet0/2", " ">>, current[k]))
                => OneEventAt(k)

\* two transcripts of three lines that differ in the last line only, compared
C10_Witness ==
    /\ diffOut.done
    /\ Len(current) = 3
    /\ DiffersOnlyAt(3)
    /\ ~Contains(<<"FastEthernet0/2", " ">>, current[3])
    /\ Len(diffOut.events) = 1

\* ------------------------------------------------------------------ C11
\* the text "FastEthernet0/2 " as the tokens of a line hold it
MonitoredPort == <<"FastEthernet0/2", " ">>
\* the compared positions whose fresh line differs from the baseline line
Mismatches == {k \in 1..Min(Len(current), Len(good)) : current[k] # good[k]}
SuppressedMismatches == {k \in Mismatches : Contains(MonitoredPort, current[k])}
EntriesOf(q, msg) == {i \in 1..Len(q) : q[i].msg = msg}

\* C11: a compared position whose fresh line differs from the baseline line and
\* contains "FastEthernet0/2 " yields no ChangeEvent, whatever the baseline line
\* is; every such position is logged once, at debug level, as ignored, and no
\* ChangeEvent carries a fresh line that contains the pattern.
C11_SuppressedMismatchIsSilent ==
    diffOut.done =>
        /\ \A k \in SuppressedMismatches :
               \A i \in 1..Len(diffOut.events) : diffOut.events[i].lineIndex # k - 1
        /\ \A i \in 1..Len(diffOut.events) :
               ~Contains(MonitoredPort, diffOut.events[i].actualLine)
        /\ Cardinality(EntriesOf(diffOut.log, "Ignoring due to exception"))
              = Cardinality(SuppressedMismatches)
        /\ \A i \in EntriesOf(diffOut.log, "Ignoring due to exception") :
               diffOut.log[i].level = "debug"
        /\ Cardinality(EntriesOf(diffOut.log, "CONFIG FILE CHANGE"))
              = Len(diffOut.events)

\* a finished comparison with a suppressed mismatch against a baseline line that
\* does not hold the pattern, next to an unsuppressed mismatch
C11_Witness ==
    /\ diffOut.done
    /\ \E k \in SuppressedMismatches : ~Contains(MonitoredPort, good[k])
    /\ Mismatches # SuppressedMismatches
    /\ diffOut.events # <<>>

\* ------------------------------------------------------------------ C12
\* the compared positions that are to be reported
Reportable == Mismatches \ SuppressedMismatches

\* the events are exactly the reportable positions, each once, in ascending order,
\* each with the baseline line and the fresh line of its position
PositionalEvents ==
    /\ Len(diffOut.events) = Cardinality(Reportable)
    /\ \A i \in 1..Len(diffOut.events) :
          LET e == diffOut.events[i]
          IN  /\ e.lineIndex + 1 \in Reportable
              /\ e.expectedLine = good[e.lineIndex + 1]
              /\ e.actualLine = current[e.lineIndex + 1]
    /\ \A i, j \in 1..Len(diffOut.events) :
          i < j => diffOut.events[i].lineIndex < diffOut.events[j].lineIndex

\* baseline [A, B, C] against fresh [A, X, B, C]: one line put in after the first
InsertedAfterFirst ==
    /\ Len(good) = 3
    /\ Len(current) = 4
    /\ current[1] = good[1]
    /\ current[2] # good[2]
    /\ current[3] = good[2]
    /\ current[4] = good[3]
    /\ good[2] # good[3]
    /\ \A k \in 1..4 : ~Contains(MonitoredPort, current[k])

\* C12: for transcripts of different length one ChangeEvent is produced, in
\* ascending index order, for every index below the length of the shorter
\* transcript at which the fresh line differs from the baseline line and is not
\* suppressed, and for nothing else; a line put in after the first line of a
\* three-line baseline gives the two events of index 1 and index 2.
C12_DiffIsPositional ==
    (diffOut.done /\ Len(current) # Len(good)) =>
        /\ PositionalEvents
        /\ InsertedAfterFirst =>
              diffOut.events = <<[lineIndex |-> 1, expectedLine |-> good[2],
                                  actualLine |-> current[2]],
                                 [lineIndex |-> 2, expectedLine |-> good[3],
                                  actualLine |-> good[2]]>>

\* the comparison of a three-line baseline with its copy that has one line put
\* in after the first, finished with two events
C12_Witness ==
    /\ diffOut.done
    /\ InsertedAfterFirst
    /\ Len(diffOut.events) = 2

\* ------------------------------------------------------------------ C13
\* C13: when the fresh transcript equals the baseline as a whole line sequence,
\* no ChangeEvent is produced and no change is logged, whatever the lines hold
\* (suppressed lines and empty transcripts included).
C13_EqualTranscriptsNoEvent ==
    (diffOut.done /\ current = good) =>
        /\ diffOut.events = <<>>
        /\ EntriesOf(diffOut.log, "CONFIG FILE CHANGE") = {}

\* a finished comparison of two equal transcripts that hold a line with the
\* pattern and a line without it
C13_Witness ==
    /\ diffOut.done
    /\ current = good
    /\ \E k \in 1..Len(current) : Contains(MonitoredPort, current[k])
    /\ \E k \in 1..Len(current) : ~Contains(MonitoredPort, current[k])

\* ------------------------------------------------------------------ C14
\* a step that changes the Baseline Store is a capture of createSwitchBaseline:
\* taken in the --swbaseline loop, after the prompt that follows the retrieval
\* command, and it writes the file of the host in hand and no other
C14_WriteIsCapture ==
    store' # store =>
        /\ phase = "baseline"
        /\ args.swbaseline
        /\ pc = "expExec"
        /\ \E out \in RawOutputs : store' = WriteFile(store, BaselineName(host), out)

C14_MonitoringStep == phase = "monitor" => store' = store

\* C14: no step taken during monitoring changes the Baseline Store, whatever the
\* outcome of the host check; the store changes only in a step of
\* createSwitchBaseline in the --swbaseline loop.
C14_MonitoringNeverWritesBaselines ==
    [][C14_MonitoringStep /\ C14_WriteIsCapture]_vars

\* a second polling cycle in which a check has just reported drift
C14_Witness ==
    /\ phase = "monitor"
    /\ cycle > 0
    /\ result = "done"
    /\ events # <<>>
    /\ store # <<>>

\* ------------------------------------------------------------------ C15
\* the process has stopped and an error is what stopped it
StoppedByError ==
    /\ pc = "exited"
    /\ \/ Logged("No switchHosts_baseline.txt file found")
       \/ Logged("No []Hosts.txt/baseline file found")
       \/ Logged(MissingBaselineMsg)
       \/ result = "raised"

\* C15: whenever the process stops because of an error (a registry file is
\* missing, a baseline is missing, or an exception reached the handler at the top
\* of the polling loop) its exit status is not zero.
C15_ErrorStopIsNonZero == StoppedByError => exitCode # 0

\* ------------------------------------------------------------------ C16
\* the session in hand is open: spawned, connected and not yet closed or let go
SessionInHandOpen ==
    /\ pc \in {"expUser", "expPass", "expPrompt1", "expReturn", "expPrompt2",
                "expPager", "expExec"}
    /\ connOK
    /\ telconn = "open"

\* Transport Sessions that are open: the one in hand and what earlier calls left
OpenSessions ==
    (IF SessionInHandOpen THEN 1 ELSE 0) + (IF orphaned THEN 1 ELSE 0)

\* C16: at every point of a run at most one Transport Session is open: the
\* session of one host is closed before the session of the next host is opened,
\* after a success and after a failed negotiation alike.
C16_AtMostOneSessionOpen == OpenSessions <= 1

\* ------------------------------------------------------------------ C17
\* the fields of the registry line the per-line records belong to
SubjectFields == Split(hostsFile[Subject], ",")
Matched(pat) == [pat |-> pat, res |-> "match"]
TimedOut(pat) == [pat |-> pat, res |-> "timeout"]

\* the waits of the negotiation, without the wait that follows the retrieval command
NegotiationSeen == SubSeq(seen, 1, NegotiationWaits)

\* what a negotiation that ends in a handle sends and observes for the login
LoginSent ==
    (IF SubjectFields[2] # <<>> THEN <<SubjectFields[2] \o CR>> ELSE <<>>)
        \o (IF SubjectFields[3] # <<>> THEN <<SubjectFields[3] \o CR>> ELSE <<>>)
LoginSeen ==
    (IF SubjectFields[2] # <<>> THEN <<Matched(UserPat)>> ELSE <<>>)
        \o (IF SubjectFields[3] # <<>> THEN <<Matched(PassPat)>> ELSE <<>>)

\* the prompt was found at once, or after RETURN and one carriage return
DirectReady ==
    /\ NegotiationSent = LoginSent \o <<PagerOff>>
    /\ NegotiationSeen = LoginSeen \o <<Matched(PromptPat), Matched(PromptPat)>>
RecoveredReady ==
    /\ NegotiationSent = LoginSent \o <<CR, PagerOff>>
    /\ NegotiationSeen = LoginSeen \o <<TimedOut(PromptPat), Matched(ReturnPat),
                                        Matched(PromptPat), Matched(PromptPat)>>

\* the first wait for a prompt terminator of the negotiation
FirstPromptWait(i) ==
    /\ seen[i].pat = PromptPat
    /\ \A j \in 1..(i - 1) : seen[j].pat # PromptPat

\* every send of a negotiation is the answer to the pattern just observed
SendFollowsObservation ==
    (pc \in WaitPcs /\ sent' # sent) =>
        /\ seen' = Append(seen, Matched(seen'[Len(seen')].pat))
        /\ \E item \in {username \o CR, password \o CR, CR, PagerOff, Retrieval} :
              /\ sent' = Append(sent, item)
              /\ pc = "expUser" => item = username \o CR /\ username # <<>>
              /\ pc = "expPass" => item = password \o CR /\ password # <<>>
              /\ pc = "expReturn" => item = CR
              /\ pc \in {"expPrompt1", "expPrompt2"} => item = PagerOff
              /\ pc = "expPager" => item = Retrieval

C17_Order == negotiated = "Ready" => (DirectReady \/ RecoveredReady)

\* C17 as stated: a handle is returned only after the login sends, each after its
\* prompt, a prompt terminator, the pager-disable command and a prompt terminator
\* again, in this order; and a wait of the negotiation that ends without a match
\* never ends in a handle.
C17_AnyTimeoutFails ==
    /\ C17_Order
    /\ negotiated = "Ready" => \A i \in 1..NegotiationWaits : seen[i].res = "match"

C17_Failures ==
    (negotiated # "none"
        /\ \E i \in 1..NegotiationWaits : seen[i].res # "match" /\ ~FirstPromptWait(i))
          => negotiated = "Failed" /\ result = "false"

\* C17 amended: the same order; a wait that ends without a match ends in the
\* failure signal unless it is the first wait for a prompt terminator, after
\* which the negotiation looks for RETURN, sends one carriage return and waits
\* for the prompt terminator once more.
C17_ReadyOnlyInOrder ==
    [](C17_Order /\ C17_Failures) /\ [][SendFollowsObservation]_vars

\* a handle was returned for a line with a username and a password after the
\* first wait for the prompt had timed out
C17_Witness ==
    /\ negotiated = "Ready"
    /\ SubjectFields[2] # <<>>
    /\ SubjectFields[3] # <<>>
    /\ RecoveredReady

\* ------------------------------------------------------------------ C18
\* C18: the encodings of a HostKey are reversible: the name printed in an alert,
\* made from the baseline file name, and the name reported after a failed
\* connection, made from the dial string, are the HostKey again, and no other
\* HostKey has the same baseline file name.
C18_EncodingsReversible ==
    encoded.done =>
        /\ encoded.shown = hostKey
        /\ encoded.reported = hostKey
        /\ \A other \in HostKeys \ {hostKey} : BaselineName(other) # encoded.name

\* ------------------------------------------------------------------ C19
IsProperPrefix(a, b) == Len(a) < Len(b) /\ SubSeq(b, 1, Len(a)) = a
OneIsProperPrefix == IsProperPrefix(current, good) \/ IsProperPrefix(good, current)

\* C19: no ChangeEvent has an index at or beyond the length of the shorter
\* transcript; when one transcript is a proper prefix of the other, the two are
\* unequal, the comparison takes the mismatch branch and yet produces no
\* ChangeEvent and logs no change.
C19_TailIsNeverReported ==
    diffOut.done =>
        /\ \A i \in 1..Len(diffOut.events) :
              diffOut.events[i].lineIndex < Min(Len(current), Len(good))
        /\ OneIsProperPrefix =>
              /\ current # good
              /\ diffOut.events = <<>>
              /\ diffOut.log = <<Entry("debug", "Current config does not match known")>>

\* a finished comparison of a baseline with a fresh transcript that is the
\* baseline plus one more line, a line that would be reported if it were compared
C19_Witness ==
    /\ diffOut.done
    /\ IsProperPrefix(good, current)
    /\ good # <<>>
    /\ ~Contains(MonitoredPort, current[Len(current)])
    /\ diffOut.events = <<>>

\* ------------------------------------------------------------------ C20
\* a call of createSwitchBaseline ends without a transcript in this step
CaptureFails ==
    /\ phase = "baseline"
    /\ result = "pending"
    /\ result' \in {"false", "raised"}

\* a step that changes the store replaces the file of the host in hand by the
\* output of a session that was Ready and showed a prompt after the retrieval
\* command, and leaves every other file as it was
WriteIsFromReadySession ==
    store' # store =>
        /\ negotiated = "Ready"
        /\ sent[Len(sent)] = Retrieval
        /\ seen' = Append(seen, Matched(PromptPat))
        /\ result' = "done"
        /\ DOMAIN store' = DOMAIN store \cup {BaselineName(host)}
        /\ store'[BaselineName(host)] \in RawOutputs
        /\ \A n \in DOMAIN store : n # BaselineName(host) => store'[n] = store[n]

C20_FailureReported ==
    (phase = "baseline" /\ result = "false") =>
        /\ negotiated = "Failed"
        /\ Logged("Creating baseline failed")
        /\ ~Logged("Created baseline for host")

\* C20: a baseline capture that gets no transcript leaves the Baseline Store as
\* it was (no file created, emptied or overwritten) and reports the failure; a
\* baseline is replaced only by the output of a session that reached Ready and
\* showed a prompt after the retrieval command.
C20_FailedCaptureKeepsBaseline ==
    []C20_FailureReported
        /\ [][(CaptureFails => store' = store) /\ WriteIsFromReadySession]_vars

\* a capture failed on a connected session for a host that has a baseline
C20_Witness ==
    /\ phase = "baseline"
    /\ result = "false"
    /\ connOK
    /\ BaselineName(SubjectHost) \in DOMAIN store

====
